---------------------------- MODULE Spec2Model ----------------------------
(***************************************************************************)
(* TI-RSLK PWM / servo firmware: PWM_main.c and Timer_A1_Interrupt.c.     *)
(*                                                                         *)
(* Three execution contexts share the CPU: main(), the Timer A1 CCR0       *)
(* interrupt (TA1_0_IRQHandler, which calls the registered task) and the   *)
(* bumper-sensor edge interrupt (which calls Bumper_Sensors_Handler).      *)
(* Every C statement is one step; a handler preempts main between any two  *)
(* statements, and preempts the other handler when its NVIC priority       *)
(* number is lower.  `stack` holds the active handlers, innermost last.   *)
(*                                                                         *)
(* Specifications:                                                         *)
(*   Spec      the shipped program: main() from reset, with both handlers  *)
(*   FairSpec  Spec with the CPU's progress stated as fairness             *)
(*   CallSpec  the main context calls Drive_Pattern_1 / Handle_Collision   *)
(*             (defined in PWM_main.c, not called by the shipped loop)     *)
(*   TaskSpec  the two handlers alone, from every 8-bit P8->OUT            *)
(*   TimerSpec a client of the Timer_A1_Interrupt driver                   *)
(*   CountSpec a client that starts the timer once; the counter is         *)
(*             followed count by count                                     *)
(*   IndicatorSpec  the main context runs Handle_Collision, with both      *)
(*             handlers, from P8->OUT all low and all high                 *)
(***************************************************************************)
EXTENDS Integers, Sequences, FiniteSets, TLC

(***************************************************************************)
(* Bounds of the model.                                                    *)
(***************************************************************************)
\* bumper interrupts taken in one run
MaxEdges == 2
\* calls a client of the timer driver makes in one run
MaxCalls == 3
\* compare events of the counter that are followed count by count
MaxEvents == 2

(***************************************************************************)
(* C integer operators on unsigned values of n bits.                       *)
(***************************************************************************)
RECURSIVE BitAnd(_, _, _)
BitAnd(a, b, n) ==
    IF n = 0 THEN 0
    ELSE (a % 2) * (b % 2) + 2 * BitAnd(a \div 2, b \div 2, n - 1)

RECURSIVE BitOr(_, _, _)
BitOr(a, b, n) ==
    IF n = 0 THEN 0
    ELSE (IF (a % 2) + (b % 2) > 0 THEN 1 ELSE 0)
         + 2 * BitOr(a \div 2, b \div 2, n - 1)

RECURSIVE BitXor(_, _, _)
BitXor(a, b, n) ==
    IF n = 0 THEN 0
    ELSE (((a % 2) + (b % 2)) % 2) + 2 * BitXor(a \div 2, b \div 2, n - 1)

RECURSIVE Pow2(_)
Pow2(n) == IF n = 0 THEN 1 ELSE 2 * Pow2(n - 1)

\* ~m in n bits
BitNot(m, n) == Pow2(n) - 1 - m

\* bit i of v
Bit(v, i) == (v \div Pow2(i)) % 2

(***************************************************************************)
(* printf("Collision Detected! Bumper Sensor State: 0x%02X\n", b)          *)
(* The line is the literal text followed by the characters %02X produces:  *)
(* upper-case hexadecimal, zero-padded to at least two digits.             *)
(***************************************************************************)
HexDigit(d) ==
    <<"0", "1", "2", "3", "4", "5", "6", "7",
      "8", "9", "A", "B", "C", "D", "E", "F">>[d + 1]

RECURSIVE HexUpper(_)
HexUpper(v) ==
    IF v < 16 THEN <<HexDigit(v)>>
    ELSE Append(HexUpper(v \div 16), HexDigit(v % 16))

\* %X in place of %02X: no zero padding
Format02X_NoPad(v) == HexUpper(v)

Format02X(v) ==
    LET s == HexUpper(v) IN IF Len(s) < 2 THEN <<"0">> \o s ELSE s

CollisionLine(b) ==
    <<"Collision Detected! Bumper Sensor State: 0x">> \o Format02X(b)
        \o <<"\n">>

(***************************************************************************)
(* Input sets.                                                             *)
(***************************************************************************)
\* bitmasks the bumper driver passes to the handler
BumperStates == {1, 237}
\* NVIC priority of the bumper interrupt (set by Bumper_Sensors_Init):
\* above, equal to and below Timer A1's priority 2
BumperPriorities == {1, 2, 3}
\* callbacks a client registers with the timer driver
Tasks == {"Timer_A1_10_Hz_Task", "Task_B"}
NULL == "NULL"

VARIABLES
    \* PWM_main.c globals
    collision_detected, bumper_sensor_value,
    \* Timer_A1_Interrupt driver state
    Timer_A1_Task, TA1CTL, TA1CCTL0, TA1CCR0, TA1EX0, NVIC_IP10, NVIC_EN10,
    \* other hardware
    P8_OUT, LED2, PRIMASK, bumper_armed, bumper_prio,
    motor, servo, uart,
    \* main context: position, statement index in a drive sequence, return
    \* address, arguments of the timer call
    pc, ip, ra, arg_task, arg_period,
    \* handlers: active handlers, positions, argument of the bumper handler
    stack, tpc, bpc, bumper_sensor_state,
    \* history: commands and delays of the running sequence, P8->OUT on
    \* entry of the latest run of the task and the latch its test read (-1
    \* before the first), task calls of the running handler,
    \* task registered by the last returned init, bumper interrupts taken,
    \* latch sets, first motor command since the latch was set (while it is
    \* set), client calls, latch on entry of the running sequence
    mlog, p8_entry, branch, task_calls, invoked, registered,
    nEdges, nSets, first_cmd, nCalls, h_entry,
    \* the driver as its calls left it ("never" initialised, "running",
    \* "stopped" by a returned TimerA1_Stop, "restarted" by an init called
    \* after a stop), and the argument of main()'s last Clock_Delay1ms
    phase, delay_ms,
    \* Timer A1 counter register, and the history of its compare events:
    \* counts since the last one (or since the start), and the counts
    \* between the events so far
    TAR, since, gaps

vars == <<collision_detected, bumper_sensor_value,
          Timer_A1_Task, TA1CTL, TA1CCTL0, TA1CCR0, TA1EX0, NVIC_IP10,
          NVIC_EN10, P8_OUT, LED2, PRIMASK, bumper_armed, bumper_prio,
          motor, servo, uart, pc, ip, ra, arg_task, arg_period,
          stack, tpc, bpc, bumper_sensor_state,
          mlog, p8_entry, branch, task_calls, invoked, registered,
          nEdges, nSets, first_cmd, nCalls, h_entry, phase, delay_ms,
          TAR, since, gaps>>

globals == <<collision_detected, bumper_sensor_value>>
timer   == <<Timer_A1_Task, TA1CTL, TA1CCTL0, TA1CCR0, TA1EX0, NVIC_IP10,
             NVIC_EN10>>
periph  == <<P8_OUT, LED2, PRIMASK, bumper_armed, bumper_prio, motor,
             servo, uart>>
mainctx == <<pc, ip, ra, arg_task, arg_period>>
tctx    == <<tpc, p8_entry, branch, task_calls, invoked>>
bctx    == <<bpc, bumper_sensor_state, nEdges>>
counter == <<TAR, since, gaps>>
hist    == <<mlog, registered, nSets, first_cmd, nCalls, h_entry, phase,
             delay_ms, counter>>

(***************************************************************************)
(* Interrupt arbitration.                                                  *)
(***************************************************************************)
Running == IF stack = <<>> THEN "main" ELSE stack[Len(stack)]

Active(h) == \E i \in 1..Len(stack) : stack[i] = h

\* NVIC priority field: the top three bits of the IP byte
Priority(h) == IF h = "TA1" THEN NVIC_IP10 \div 32 ELSE bumper_prio

\* a request of priority p preempts main, and a handler of a higher number
CanPreempt(p) == stack = <<>> \/ p < Priority(Running)

Pop == SubSeq(stack, 1, Len(stack) - 1)

(***************************************************************************)
(* Timer A1 hardware.  In up mode (MC # 0) the counter reaches CCR0 and    *)
(* sets CCIFG (bit 0 of CCTL[0]).  The request is level-sensitive: it      *)
(* stands while CCIFG and CCIE (bit 4) are set, and is taken when NVIC     *)
(* interrupt 10 is enabled, PRIMASK is clear and the priority allows.      *)
(* Timing: a period is not shorter than one run of the handler (the        *)
(* shipped period is 100 ms, PWM_main.c line 197), so the counter does not *)
(* reach CCR0 again while TA1_0_IRQHandler is active.                      *)
(* In up mode (MC = 01, the mode line 46 selects) the counter counts from  *)
(* 0 (line 33) to CCR0 and restarts at 0; an up-mode or up/down-mode       *)
(* Timer_A whose CCR0 is 0 does not count.                                 *)
(***************************************************************************)
\* the MC field, bits 5..4 of CTL
MC(ctl) == (ctl \div 16) % 4

TimerRuns == MC(TA1CTL) # 0 /\ (MC(TA1CTL) = 2 \/ TA1CCR0 # 0)

CCIFG == Bit(TA1CCTL0, 0)

CCIE == Bit(TA1CCTL0, 4)

\* the counter has counted up to CCR0: the compare event, the counts before
\* it taken in one step
TimerExpire ==
    /\ TimerRuns
    /\ ~Active("TA1")
    /\ CCIFG = 0
    /\ TA1CCTL0' = BitOr(TA1CCTL0, 1, 16)
    /\ TAR' = TA1CCR0
    /\ UNCHANGED <<globals, Timer_A1_Task, TA1CTL, TA1CCR0, TA1EX0,
                   NVIC_IP10, NVIC_EN10, periph, mainctx, stack, tctx, bctx,
                   mlog, registered, nSets, first_cmd, nCalls, h_entry,
                   phase, delay_ms, since, gaps>>

\* one count of the counter in up mode
CountUp(tar, ccr0) == IF tar = ccr0 THEN 0 ELSE (tar + 1) % 65536

\* the counter counts once; counting to CCR0 is the compare event that
\* sets CCIFG
TimerCount ==
    /\ TimerRuns
    /\ Len(gaps) < MaxEvents
    /\ TAR' = CountUp(TAR, TA1CCR0)
    /\ IF CountUp(TAR, TA1CCR0) = TA1CCR0
       THEN /\ TA1CCTL0' = BitOr(TA1CCTL0, 1, 16)
            /\ gaps' = Append(gaps, since + 1)
            /\ since' = 0
       ELSE /\ since' = since + 1
            /\ UNCHANGED <<TA1CCTL0, gaps>>
    /\ UNCHANGED <<globals, Timer_A1_Task, TA1CTL, TA1CCR0, TA1EX0,
                   NVIC_IP10, NVIC_EN10, periph, mainctx, stack, tctx, bctx,
                   mlog, registered, nSets, first_cmd, nCalls, h_entry,
                   phase, delay_ms>>

\* exception entry of interrupt 10
TA1_Take ==
    /\ CCIFG = 1 /\ CCIE = 1
    /\ NVIC_EN10 = 1
    /\ PRIMASK = 0
    /\ ~Active("TA1")
    /\ CanPreempt(Priority("TA1"))
    /\ stack' = Append(stack, "TA1")
    /\ tpc' = "L61"
    /\ task_calls' = 0
    /\ invoked' = NULL
    /\ UNCHANGED <<globals, timer, periph, mainctx, p8_entry, branch, bctx,
                   hist>>

(***************************************************************************)
(* TA1_0_IRQHandler, Timer_A1_Interrupt.c lines 58-65.                     *)
(***************************************************************************)
\* the interrupt enable (bit 4) cleared in place of the flag (bit 0)
AckCCTL0_WrongBit(v) == BitAnd(v, BitNot(16, 16), 16)

\* line 61: TIMER_A1->CCTL[0] &= ~0x0001;
AckCCTL0(v) == BitAnd(v, BitNot(1, 16), 16)

TA1_Ack ==
    /\ Running = "TA1" /\ tpc = "L61"
    /\ TA1CCTL0' = AckCCTL0(TA1CCTL0)
    /\ tpc' = "L64"
    /\ UNCHANGED <<globals, Timer_A1_Task, TA1CTL, TA1CCR0, TA1EX0,
                   NVIC_IP10, NVIC_EN10, periph, mainctx, stack, p8_entry,
                   branch, task_calls, invoked, bctx, hist>>

\* where the call of line 64 goes: a null pointer faults, Task_B is a
\* client's callback with no effect on this program's state
CallTarget(t) ==
    IF t = NULL THEN "HardFault"
    ELSE IF t = "Timer_A1_10_Hz_Task" THEN "L70"
    ELSE "L65"

\* line 64: (*Timer_A1_Task)();
TA1_Call ==
    /\ Running = "TA1" /\ tpc = "L64"
    /\ tpc' = CallTarget(Timer_A1_Task)
    /\ task_calls' = IF Timer_A1_Task = NULL THEN task_calls
                     ELSE task_calls + 1
    /\ invoked' = Timer_A1_Task
    /\ p8_entry' = P8_OUT
    /\ UNCHANGED <<globals, timer, periph, mainctx, stack, branch, bctx,
                   hist>>

\* line 65: exception return
TA1_Return ==
    /\ Running = "TA1" /\ tpc = "L65"
    /\ stack' = Pop
    /\ tpc' = "idle"
    /\ UNCHANGED <<globals, timer, periph, mainctx, p8_entry, branch,
                   task_calls, invoked, bctx, hist>>

(***************************************************************************)
(* Timer_A1_10_Hz_Task, PWM_main.c lines 68-80.                            *)
(***************************************************************************)
\* line 70: if (collision_detected == 0)
Task_Test ==
    /\ Running = "TA1" /\ tpc = "L70"
    /\ branch' = collision_detected
    /\ tpc' = IF collision_detected = 0 THEN "L72" ELSE "L77"
    /\ UNCHANGED <<globals, timer, periph, mainctx, stack, p8_entry,
                   task_calls, invoked, bctx, hist>>

\* lines 72 and 77: P8->OUT ^= 0x21;  P8->OUT ^= 0xC0;
TaskToggle(out, at) ==
    IF at = "L72" THEN BitXor(out, 33, 8) ELSE BitXor(out, 192, 8)

\* the clearing statement left out
TaskClear_Skipped(out, at) == out

\* both branches clearing the red group
TaskClear_SameMask(out, at) == BitAnd(out, BitNot(192, 8), 8)

\* lines 73 and 78: P8->OUT &= ~0xC0;  P8->OUT &= ~0x21;
TaskClear(out, at) ==
    IF at = "L73" THEN BitAnd(out, BitNot(192, 8), 8)
    ELSE BitAnd(out, BitNot(33, 8), 8)

Task_Toggle ==
    /\ Running = "TA1" /\ tpc \in {"L72", "L77"}
    /\ P8_OUT' = TaskToggle(P8_OUT, tpc)
    /\ tpc' = IF tpc = "L72" THEN "L73" ELSE "L78"
    /\ UNCHANGED <<globals, timer, LED2, PRIMASK, bumper_armed, bumper_prio,
                   motor, servo, uart, mainctx, stack, p8_entry, branch,
                   task_calls, invoked, bctx, hist>>

Task_Clear ==
    /\ Running = "TA1" /\ tpc \in {"L73", "L78"}
    /\ P8_OUT' = TaskClear(P8_OUT, tpc)
    /\ tpc' = "L65"
    /\ UNCHANGED <<globals, timer, LED2, PRIMASK, bumper_armed, bumper_prio,
                   motor, servo, uart, mainctx, stack, p8_entry, branch,
                   task_calls, invoked, bctx, hist>>

TimerHandler ==
    \/ TA1_Take
    \/ TA1_Ack
    \/ TA1_Call
    \/ Task_Test
    \/ Task_Toggle
    \/ Task_Clear
    \/ TA1_Return

(***************************************************************************)
(* Bumper interrupt and Bumper_Sensors_Handler, PWM_main.c lines 49-56.    *)
(* The bumper driver calls the registered handler with the sampled         *)
(* bitmask on a falling edge.                                              *)
(***************************************************************************)
Bump_Take(b) ==
    /\ bumper_armed = 1
    /\ PRIMASK = 0
    /\ ~Active("BUMP")
    /\ CanPreempt(Priority("BUMP"))
    /\ nEdges < MaxEdges
    /\ stack' = Append(stack, "BUMP")
    /\ bpc' = "L51"
    /\ bumper_sensor_state' = b
    /\ nEdges' = nEdges + 1
    /\ UNCHANGED <<globals, timer, periph, mainctx, tctx, hist>>

\* the test of line 51 dropped: every edge reports and sets
HandlerBranch_NoTest(latch) == "L53"

\* line 51: if (collision_detected == 0)
HandlerBranch(latch) == IF latch = 0 THEN "L53" ELSE "L56"

Bump_Test ==
    /\ Running = "BUMP" /\ bpc = "L51"
    /\ bpc' = HandlerBranch(collision_detected)
    /\ UNCHANGED <<globals, timer, periph, mainctx, stack, tctx,
                   bumper_sensor_state, nEdges, hist>>

\* line 53: printf(...)
Bump_Printf ==
    /\ Running = "BUMP" /\ bpc = "L53"
    /\ uart' = Append(uart, CollisionLine(bumper_sensor_state))
    /\ bpc' = "L54"
    /\ UNCHANGED <<globals, timer, P8_OUT, LED2, PRIMASK, bumper_armed,
                   bumper_prio, motor, servo, mainctx, stack, tctx,
                   bumper_sensor_state, nEdges, hist>>

\* line 54: collision_detected = 1;
Bump_Set ==
    /\ Running = "BUMP" /\ bpc = "L54"
    /\ collision_detected' = 1
    /\ nSets' = IF collision_detected = 0 THEN nSets + 1 ELSE nSets
    /\ first_cmd' = IF collision_detected = 0 THEN "none" ELSE first_cmd
    /\ bpc' = "L56"
    /\ UNCHANGED <<bumper_sensor_value, timer, periph, mainctx, stack, tctx,
                   bumper_sensor_state, nEdges, mlog, registered, nCalls,
                   h_entry, phase, delay_ms, counter>>

\* line 56: return to the driver, exception return
Bump_Return ==
    /\ Running = "BUMP" /\ bpc = "L56"
    /\ stack' = Pop
    /\ bpc' = "idle"
    /\ UNCHANGED <<globals, timer, periph, mainctx, tctx,
                   bumper_sensor_state, nEdges, hist>>

BumperHandler ==
    \/ \E b \in BumperStates : Bump_Take(b)
    \/ Bump_Test
    \/ Bump_Printf
    \/ Bump_Set
    \/ Bump_Return

(***************************************************************************)
(* Timer_A1_Interrupt_Init(task, period), Timer_A1_Interrupt.c lines       *)
(* 15-47, one step per statement; pc "Tnn" is the statement of line nn.    *)
(***************************************************************************)
\* the store left out
StoreTask_Dropped(old, task) == old

\* the task stored only when none is registered yet
StoreTask_KeepFirst(old, task) == IF old = NULL THEN task ELSE old

\* line 18: Timer_A1_Task = task;
StoreTask(old, task) == task

\* lines 21 and 52: TIMER_A1->CTL &= ~0x0030;
HaltTimer(ctl) == BitAnd(ctl, BitNot(48, 16), 16)

\* line 26: TIMER_A1->CTL |= 0x0280;
SelectClock(ctl) == BitOr(ctl, 640, 16)

\* line 30: TIMER_A1->CCTL[0] |= 0x0010;
EnableCCIE(cctl) == BitOr(cctl, 16, 16)

\* the period stored as it is
PeriodToCCR0_NoMinus(period) == period % 65536

\* line 34: TIMER_A1->CCR[0] = (period - 1);  a 16-bit register
PeriodToCCR0(period) == (period - 1) % 65536

\* line 37: TIMER_A1->EX0 |= 0x0005;
SetEX0(ex0) == BitOr(ex0, 5, 16)

\* line 40: NVIC->IP[2] = (NVIC->IP[2]&0xFF00FFFF) | 0x00400000;
\* bits 23..16 of IP[2] are the priority byte of interrupt 10
SetPriority(ip10) == 64

\* line 46: TIMER_A1->CTL |= 0x0014;  TACLR (bit 2) resets the counter and
\* reads back as 0, MC = 01 (up mode) stays
StartTimer(ctl) == BitOr(ctl, 16, 16)

InitNext(at) ==
    CASE at = "T18" -> "T21"
      [] at = "T21" -> "T26"
      [] at = "T26" -> "T30"
      [] at = "T30" -> "T34"
      [] at = "T34" -> "T37"
      [] at = "T37" -> "T40"
      [] at = "T40" -> "T43"
      [] at = "T43" -> "T46"
      [] at = "T46" -> "T47"

Timer_A1_Interrupt_Init ==
    /\ Running = "main"
    /\ pc \in {"T18", "T21", "T26", "T30", "T34", "T37", "T40", "T43", "T46"}
    /\ pc' = InitNext(pc)
    /\ Timer_A1_Task' = IF pc = "T18" THEN StoreTask(Timer_A1_Task, arg_task)
                        ELSE Timer_A1_Task
    /\ TA1CTL' = CASE pc = "T21" -> HaltTimer(TA1CTL)
                   [] pc = "T26" -> SelectClock(TA1CTL)
                   [] pc = "T46" -> StartTimer(TA1CTL)
                   [] OTHER -> TA1CTL
    /\ TA1CCTL0' = IF pc = "T30" THEN EnableCCIE(TA1CCTL0) ELSE TA1CCTL0
    /\ TA1CCR0' = IF pc = "T34" THEN PeriodToCCR0(arg_period) ELSE TA1CCR0
    /\ TA1EX0' = IF pc = "T37" THEN SetEX0(TA1EX0) ELSE TA1EX0
    /\ NVIC_IP10' = IF pc = "T40" THEN SetPriority(NVIC_IP10) ELSE NVIC_IP10
    /\ NVIC_EN10' = IF pc = "T43" THEN 1 ELSE NVIC_EN10
    \* line 46: TACLR resets the counter
    /\ TAR' = IF pc = "T46" THEN 0 ELSE TAR
    /\ since' = IF pc = "T46" THEN 0 ELSE since
    /\ gaps' = IF pc = "T46" THEN <<>> ELSE gaps
    /\ UNCHANGED <<globals, periph, ip, ra, arg_task, arg_period, stack,
                   tctx, bctx, mlog, registered, nSets, first_cmd, nCalls,
                   h_entry, phase, delay_ms>>

\* line 47: return to the caller
Timer_A1_Interrupt_Init_Return ==
    /\ Running = "main" /\ pc = "T47"
    /\ pc' = ra
    /\ registered' = arg_task
    /\ UNCHANGED <<globals, timer, periph, ip, ra, arg_task, arg_period,
                   stack, tctx, bctx, mlog, nSets, first_cmd, nCalls,
                   h_entry, phase, delay_ms, counter>>

(***************************************************************************)
(* TimerA1_Stop, Timer_A1_Interrupt.c lines 49-56.                         *)
(***************************************************************************)
\* the interrupt left enabled
DisableIRQ10_Kept(en) == en

\* line 55: NVIC->ICER[0] = 0x00000400;  a write of 1 to bit 10 of ICER
\* clears the enable of interrupt 10
DisableIRQ10(en) == 0

TimerA1_Stop ==
    /\ Running = "main" /\ pc \in {"S52", "S55"}
    /\ TA1CTL' = IF pc = "S52" THEN HaltTimer(TA1CTL) ELSE TA1CTL
    /\ NVIC_EN10' = IF pc = "S55" THEN DisableIRQ10(NVIC_EN10) ELSE NVIC_EN10
    /\ pc' = IF pc = "S52" THEN "S55" ELSE ra
    /\ phase' = IF pc = "S55" THEN "stopped" ELSE phase
    /\ UNCHANGED <<globals, Timer_A1_Task, TA1CCTL0, TA1CCR0, TA1EX0,
                   NVIC_IP10, periph, ip, ra, arg_task, arg_period, stack,
                   tctx, bctx, mlog, registered, nSets, first_cmd, nCalls,
                   h_entry, delay_ms, counter>>

(***************************************************************************)
(* Drive sequences, PWM_main.c lines 104-173: the statements in order.     *)
(* A motor command is <<function, left duty, right duty>>, a delay is      *)
(* <<"Clock_Delay1ms", ms>>.                                               *)
(***************************************************************************)
\* the stop between the left and the right turn left out
Drive_Pattern_1_NoStop ==
    << <<"Motor_Forward", 7500, 7500>>,  <<"Clock_Delay1ms", 2000>>,
       <<"Motor_Stop">>,                 <<"Clock_Delay1ms", 2000>>,
       <<"Motor_Left", 4500, 4500>>,     <<"Clock_Delay1ms", 2000>>,
       <<"Motor_Right", 4500, 4500>>,    <<"Clock_Delay1ms", 2000>>,
       <<"Motor_Stop">>,                 <<"Clock_Delay1ms", 2000>>,
       <<"Motor_Backward", 4500, 4500>>, <<"Clock_Delay1ms", 2000>>,
       <<"Motor_Stop">>,                 <<"Clock_Delay1ms", 2000>> >>

Drive_Pattern_1 ==
    << <<"Motor_Forward", 7500, 7500>>,  <<"Clock_Delay1ms", 2000>>,
       <<"Motor_Stop">>,                 <<"Clock_Delay1ms", 2000>>,
       <<"Motor_Left", 4500, 4500>>,     <<"Clock_Delay1ms", 2000>>,
       <<"Motor_Stop">>,                 <<"Clock_Delay1ms", 2000>>,
       <<"Motor_Right", 4500, 4500>>,    <<"Clock_Delay1ms", 2000>>,
       <<"Motor_Stop">>,                 <<"Clock_Delay1ms", 2000>>,
       <<"Motor_Backward", 4500, 4500>>, <<"Clock_Delay1ms", 2000>>,
       <<"Motor_Stop">>,                 <<"Clock_Delay1ms", 2000>> >>

\* the latch cleared on entry instead of after the last delay
Handle_Collision_ClearFirst ==
    << <<"collision_detected = 0">>,
       <<"Motor_Stop">>,                 <<"Clock_Delay1ms", 2000>>,
       <<"Motor_Backward", 4500, 4500>>, <<"Clock_Delay1ms", 3000>>,
       <<"Motor_Stop">>,                 <<"Clock_Delay1ms", 1000>>,
       <<"Motor_Right", 1500, 1500>>,    <<"Clock_Delay1ms", 5000>>,
       <<"Motor_Stop">>,                 <<"Clock_Delay1ms", 2000>> >>

\* the turn of the recovery at the duty of the demonstration pattern
Handle_Collision_Turn4500 ==
    << <<"Motor_Stop">>,                 <<"Clock_Delay1ms", 2000>>,
       <<"Motor_Backward", 4500, 4500>>, <<"Clock_Delay1ms", 3000>>,
       <<"Motor_Stop">>,                 <<"Clock_Delay1ms", 1000>>,
       <<"Motor_Right", 4500, 4500>>,    <<"Clock_Delay1ms", 5000>>,
       <<"Motor_Stop">>,                 <<"Clock_Delay1ms", 2000>>,
       <<"collision_detected = 0">> >>

Handle_Collision ==
    << <<"Motor_Stop">>,                 <<"Clock_Delay1ms", 2000>>,
       <<"Motor_Backward", 4500, 4500>>, <<"Clock_Delay1ms", 3000>>,
       <<"Motor_Stop">>,                 <<"Clock_Delay1ms", 1000>>,
       <<"Motor_Right", 1500, 1500>>,    <<"Clock_Delay1ms", 5000>>,
       <<"Motor_Stop">>,                 <<"Clock_Delay1ms", 2000>>,
       <<"collision_detected = 0">> >>

Body(f) == IF f = "Drive_Pattern_1" THEN Drive_Pattern_1 ELSE Handle_Collision

IsMotor(stmt) ==
    stmt[1] \in {"Motor_Forward", "Motor_Backward", "Motor_Left",
                 "Motor_Right", "Motor_Stop"}

\* the motor layer: the command and the duty of each side; Motor_Stop sets
\* both duties to zero
MotorCommand(stmt) ==
    IF stmt[1] = "Motor_Stop"
    THEN [cmd |-> "Motor_Stop", left |-> 0, right |-> 0]
    ELSE [cmd |-> stmt[1], left |-> stmt[2], right |-> stmt[3]]

\* line 172: collision_detected = 0;
ClearLatch(latch) == 0

\* a latch found set ends the sequence at once
NextStatement_AbortOnLatch(at, latch, last) ==
    IF latch = 1 THEN last + 1 ELSE at + 1

\* the statements follow one another with no test between them: the next
\* one is the same whatever the latch is
NextStatement(at, latch, last) == at + 1

\* one statement of the running sequence
Sequence_Step ==
    /\ Running = "main"
    /\ pc \in {"Drive_Pattern_1", "Handle_Collision"}
    /\ ip <= Len(Body(pc))
    /\ LET stmt == Body(pc)[ip] IN
        /\ motor' = IF IsMotor(stmt) THEN MotorCommand(stmt) ELSE motor
        /\ first_cmd' = IF IsMotor(stmt) /\ collision_detected = 1
                           /\ first_cmd = "none"
                        THEN stmt[1]
                        ELSE IF stmt[1] = "collision_detected = 0" THEN "none"
                        ELSE first_cmd
        /\ collision_detected' =
              IF stmt[1] = "collision_detected = 0"
              THEN ClearLatch(collision_detected) ELSE collision_detected
        /\ mlog' = IF stmt[1] = "collision_detected = 0" THEN mlog
                   ELSE Append(mlog, stmt)
    /\ ip' = NextStatement(ip, collision_detected, Len(Body(pc)))
    /\ UNCHANGED <<bumper_sensor_value, timer, P8_OUT, LED2, PRIMASK,
                   bumper_armed, bumper_prio, servo, uart, pc, ra, arg_task,
                   arg_period, stack, tctx, bctx, registered, nSets, nCalls,
                   h_entry, phase, delay_ms, counter>>

\* the closing brace: return to the caller
Sequence_Return ==
    /\ Running = "main"
    /\ pc \in {"Drive_Pattern_1", "Handle_Collision"}
    /\ ip = Len(Body(pc)) + 1
    /\ pc' = ra
    /\ ip' = 0
    /\ mlog' = <<>>
    /\ h_entry' = 0
    /\ UNCHANGED <<globals, timer, periph, ra, arg_task, arg_period, stack,
                   tctx, bctx, registered, nSets, first_cmd, nCalls, phase,
                   delay_ms, counter>>

(***************************************************************************)
(* main(), PWM_main.c lines 175-239; pc "Lnn" is the statement of line nn. *)
(* Lines 178-191 set up the clock, the LEDs, the buttons and the UART.     *)
(***************************************************************************)
\* Timer A1 period of the 10 Hz default (line 197): 500 kHz / 10 Hz
TIMER_A1_INT_CCR0_VALUE == 50000

\* Timer_A2_PWM_Init(period, duty 1, duty 2)
Timer_A2_PWM_Init(period, d1, d2) == [period |-> period, d1 |-> d1, d2 |-> d2]

Clamp(v, period) == IF v > period THEN period ELSE v

\* Timer_A2_Update_Duty_Cycle_1 and _2: one duty, clamped to the period
Timer_A2_Update_Duty_Cycle(s, ch, v) ==
    IF ch = 1 THEN [s EXCEPT !.d1 = Clamp(v, s.period)]
    ELSE [s EXCEPT !.d2 = Clamp(v, s.period)]

\* a call of Timer_A1_Interrupt_Init: after a stop it is a restart
InitCalled(ph) ==
    IF ph \in {"stopped", "restarted"} THEN "restarted" ELSE "running"

\* the second channel's update of the first setting left out
MainNext_OneChannel(at) ==
    CASE at = "L178" -> "L194"
      [] at = "L194" -> "L198"
      [] at = "L198" -> "T18"
      [] at = "L202" -> "L205"
      [] at = "L205" -> "L208"
      [] at = "L208" -> "L211"
      [] at = "L211" -> "L218"
      [] at = "L218" -> "L220"
      [] at = "L219" -> "L220"
      [] at = "L220" -> "L221"
      [] at = "L221" -> "L224"
      [] at = "L224" -> "L225"
      [] at = "L225" -> "L226"
      [] at = "L226" -> "L227"
      [] at = "L227" -> "L218"

MainNext(at) ==
    CASE at = "L178" -> "L194"
      [] at = "L194" -> "L198"
      [] at = "L198" -> "T18"
      [] at = "L202" -> "L205"
      [] at = "L205" -> "L208"
      [] at = "L208" -> "L211"
      [] at = "L211" -> "L218"
      [] at = "L218" -> "L219"
      [] at = "L219" -> "L220"
      [] at = "L220" -> "L221"
      [] at = "L221" -> "L224"
      [] at = "L224" -> "L225"
      [] at = "L225" -> "L226"
      [] at = "L226" -> "L227"
      [] at = "L227" -> "L218"

main ==
    /\ Running = "main"
    /\ pc \in {"L178", "L194", "L198", "L202", "L205", "L208", "L211",
               "L218", "L219", "L220", "L221", "L224", "L225", "L226",
               "L227"}
    /\ pc' = MainNext(pc)
    \* line 194: Bumper_Sensors_Init(&Bumper_Sensors_Handler);
    /\ bumper_armed' = IF pc = "L194" THEN 1 ELSE bumper_armed
    \* line 198: Timer_A1_Interrupt_Init(&Timer_A1_10_Hz_Task, ...);
    /\ arg_task' = IF pc = "L198" THEN "Timer_A1_10_Hz_Task" ELSE arg_task
    /\ arg_period' = IF pc = "L198" THEN TIMER_A1_INT_CCR0_VALUE
                     ELSE arg_period
    /\ ra' = IF pc = "L198" THEN "L202" ELSE ra
    \* lines 202, 218, 219, 224, 225: the servo PWM channel
    /\ servo' = CASE pc = "L202" -> Timer_A2_PWM_Init(60000, 0, 0)
                  [] pc = "L218" -> Timer_A2_Update_Duty_Cycle(servo, 1, 1700)
                  [] pc = "L219" -> Timer_A2_Update_Duty_Cycle(servo, 2, 1700)
                  [] pc = "L224" -> Timer_A2_Update_Duty_Cycle(servo, 1, 7000)
                  [] pc = "L225" -> Timer_A2_Update_Duty_Cycle(servo, 2, 7000)
                  [] OTHER -> servo
    \* line 205: Motor_Init();
    /\ motor' = IF pc = "L205"
                THEN [cmd |-> "Motor_Init", left |-> 0, right |-> 0]
                ELSE motor
    \* line 208: collision_detected = 0;
    /\ collision_detected' = IF pc = "L208" THEN 0 ELSE collision_detected
    \* line 211: EnableInterrupts();
    /\ PRIMASK' = IF pc = "L211" THEN 0 ELSE PRIMASK
    \* lines 220 and 226: LED2_Output(RGB_LED_RED / RGB_LED_BLUE);
    /\ LED2' = CASE pc = "L220" -> "RGB_LED_RED"
                 [] pc = "L226" -> "RGB_LED_BLUE"
                 [] OTHER -> LED2
    \* lines 221 and 227: Clock_Delay1ms(5000); busy-waits at this pc
    /\ delay_ms' = IF pc \in {"L221", "L227"} THEN 5000 ELSE delay_ms
    /\ phase' = IF pc = "L198" THEN InitCalled(phase) ELSE phase
    /\ UNCHANGED <<bumper_sensor_value, timer, P8_OUT, bumper_prio, uart,
                   ip, stack, tctx, bctx, mlog, registered, nSets, first_cmd,
                   nCalls, h_entry, counter>>

(***************************************************************************)
(* Callers of the drive sequences: the main context, after main's          *)
(* initialisation, calls Drive_Pattern_1() or Handle_Collision().          *)
(***************************************************************************)
Call(f) ==
    /\ Running = "main" /\ pc = "call"
    /\ pc' = f
    /\ ip' = 1
    /\ ra' = "call"
    /\ mlog' = <<>>
    /\ h_entry' = collision_detected
    /\ UNCHANGED <<globals, timer, periph, arg_task, arg_period, stack,
                   tctx, bctx, registered, nSets, first_cmd, nCalls, phase,
                   delay_ms, counter>>

(***************************************************************************)
(* A client of the timer driver: calls Timer_A1_Interrupt_Init and         *)
(* TimerA1_Stop in any order.                                              *)
(***************************************************************************)
Periods == {0, 1, 50000}

Client_Init(t, p) ==
    /\ Running = "main" /\ pc = "client"
    /\ nCalls < MaxCalls
    /\ nCalls' = nCalls + 1
    /\ pc' = "T18"
    /\ ra' = "client"
    /\ arg_task' = t
    /\ arg_period' = p
    /\ phase' = InitCalled(phase)
    /\ UNCHANGED <<globals, timer, periph, ip, stack, tctx, bctx, mlog,
                   registered, nSets, first_cmd, h_entry, delay_ms, counter>>

Client_Stop ==
    /\ Running = "main" /\ pc = "client"
    /\ nCalls < MaxCalls
    /\ nCalls' = nCalls + 1
    /\ pc' = "S52"
    /\ ra' = "client"
    /\ UNCHANGED <<globals, timer, periph, ip, arg_task, arg_period, stack,
                   tctx, bctx, mlog, registered, nSets, first_cmd, h_entry,
                   phase, delay_ms, counter>>

\* periods of a client that watches the counter: the ends of the 16-bit
\* range and the smallest ones
CountPeriods == {0, 1, 2, 3, 65535}

\* its one call of the init
Count_Init(p) ==
    /\ nCalls = 0
    /\ Client_Init("Task_B", p)

(***************************************************************************)
(* Initial states.                                                         *)
(***************************************************************************)
\* what no specification's start differs in
InitCommon ==
    /\ bumper_sensor_value = 0
    /\ LED2 = "OFF"
    /\ bumper_prio \in BumperPriorities
    /\ uart = <<>>
    /\ ip = 0 /\ ra = "none" /\ arg_task = NULL /\ arg_period = 0
    /\ stack = <<>> /\ tpc = "idle" /\ bpc = "idle"
    /\ bumper_sensor_state = 0
    /\ mlog = <<>> /\ p8_entry = 0 /\ task_calls = 0
    \* no run of the task has read the latch yet
    /\ branch = -1
    /\ invoked = NULL
    /\ nEdges = 0 /\ nSets = 0 /\ first_cmd = "none" /\ nCalls = 0
    /\ h_entry = 0
    /\ delay_ms = 0
    /\ TAR = 0 /\ since = 0 /\ gaps = <<>>

\* reset: globals as initialised, Timer A1 and NVIC registers zero, the
\* port output register undefined; the startup code decides PRIMASK
Init ==
    /\ InitCommon
    /\ collision_detected = 0
    /\ Timer_A1_Task = NULL
    /\ TA1CTL = 0 /\ TA1CCTL0 = 0 /\ TA1CCR0 = 0 /\ TA1EX0 = 0
    /\ NVIC_IP10 = 0 /\ NVIC_EN10 = 0
    /\ P8_OUT \in {0, 255}
    /\ PRIMASK \in {0, 1}
    /\ bumper_armed = 0
    /\ motor = [cmd |-> "none", left |-> 0, right |-> 0]
    /\ servo = [period |-> 0, d1 |-> 0, d2 |-> 0]
    /\ registered = NULL
    /\ phase = "never"
    /\ pc = "L178"

\* the state main() has built when line 211 has run
Initialised ==
    /\ InitCommon
    /\ collision_detected = 0
    /\ Timer_A1_Task = "Timer_A1_10_Hz_Task"
    /\ TA1CTL = 656 /\ TA1CCTL0 = 16 /\ TA1CCR0 = 49999 /\ TA1EX0 = 5
    /\ NVIC_IP10 = 64 /\ NVIC_EN10 = 1
    /\ PRIMASK = 0
    /\ bumper_armed = 1
    /\ motor = [cmd |-> "Motor_Init", left |-> 0, right |-> 0]
    /\ servo = [period |-> 60000, d1 |-> 0, d2 |-> 0]
    /\ registered = "Timer_A1_10_Hz_Task"
    /\ phase = "running"

InitCall ==
    /\ Initialised
    /\ P8_OUT = 0
    /\ pc = "call"

InitTask ==
    /\ Initialised
    /\ P8_OUT \in 0..255
    /\ pc = "L221"

\* the main context runs recoveries; the port as reset left it or with
\* every pin low
InitIndicator ==
    /\ Initialised
    /\ P8_OUT \in {0, 255}
    /\ pc = "call"

\* a client's start: the driver never initialised, the clock-select and
\* divider fields as other code left them, interrupts enabled
InitTimer ==
    /\ InitCommon
    /\ collision_detected \in {0, 1}
    /\ Timer_A1_Task = NULL
    /\ TA1CTL \in {0, 256, 960} /\ TA1CCTL0 = 0 /\ TA1CCR0 \in {0, 7}
    /\ TA1EX0 \in {0, 2, 7}
    /\ NVIC_IP10 = 0 /\ NVIC_EN10 = 0
    /\ P8_OUT = 0
    /\ PRIMASK = 0
    /\ bumper_armed = 0
    /\ motor = [cmd |-> "none", left |-> 0, right |-> 0]
    /\ servo = [period |-> 0, d1 |-> 0, d2 |-> 0]
    /\ registered = NULL
    /\ phase = "never"
    /\ pc = "client"

\* a client that polls CCIFG: reset state, interrupts masked
InitCount ==
    /\ InitCommon
    /\ bumper_prio = 1
    /\ collision_detected = 0
    /\ Timer_A1_Task = NULL
    /\ TA1CTL = 0 /\ TA1CCTL0 = 0 /\ TA1CCR0 = 0 /\ TA1EX0 = 0
    /\ NVIC_IP10 = 0 /\ NVIC_EN10 = 0
    /\ P8_OUT = 0
    /\ PRIMASK = 1
    /\ bumper_armed = 0
    /\ motor = [cmd |-> "none", left |-> 0, right |-> 0]
    /\ servo = [period |-> 0, d1 |-> 0, d2 |-> 0]
    /\ registered = NULL
    /\ phase = "never"
    /\ pc = "client"

(***************************************************************************)
(* Specifications.                                                         *)
(***************************************************************************)
Next ==
    \/ main
    \/ Timer_A1_Interrupt_Init
    \/ Timer_A1_Interrupt_Init_Return
    \/ TimerExpire
    \/ TimerHandler
    \/ BumperHandler

Spec == Init /\ [][Next]_vars

\* the CPU executes: every step but the hardware events
CpuStep ==
    \/ main
    \/ Timer_A1_Interrupt_Init
    \/ Timer_A1_Interrupt_Init_Return
    \/ TimerHandler
    \/ Bump_Test \/ Bump_Printf \/ Bump_Set \/ Bump_Return

MainStep == main \/ Timer_A1_Interrupt_Init \/ Timer_A1_Interrupt_Init_Return

TimerBody ==
    TA1_Ack \/ TA1_Call \/ Task_Test \/ Task_Toggle \/ Task_Clear \/ TA1_Return

BumperBody == Bump_Test \/ Bump_Printf \/ Bump_Set \/ Bump_Return

\* the CPU never stops, and a preempted context resumes: a handler is
\* short against the 100 ms period, so a preempted handler finishes and
\* main() runs between interrupts
FairSpec ==
    /\ Spec
    /\ WF_vars(CpuStep)
    /\ SF_vars(TimerBody)
    /\ SF_vars(BumperBody)
    /\ SF_vars(MainStep)

NextCall ==
    \/ \E f \in {"Drive_Pattern_1", "Handle_Collision"} : Call(f)
    \/ Sequence_Step
    \/ Sequence_Return
    \/ TimerExpire
    \/ TimerHandler
    \/ BumperHandler

CallSpec == InitCall /\ [][NextCall]_vars

NextTask ==
    \/ TimerExpire
    \/ TimerHandler
    \/ BumperHandler

TaskSpec == InitTask /\ [][NextTask]_vars

NextTimer ==
    \/ \E t \in Tasks, p \in Periods : Client_Init(t, p)
    \/ Client_Stop
    \/ Timer_A1_Interrupt_Init
    \/ Timer_A1_Interrupt_Init_Return
    \/ TimerA1_Stop
    \/ TimerExpire
    \/ TimerHandler

TimerSpec == InitTimer /\ [][NextTimer]_vars

NextIndicator ==
    \/ Call("Handle_Collision")
    \/ Sequence_Step
    \/ Sequence_Return
    \/ TimerExpire
    \/ TimerHandler
    \/ BumperHandler

IndicatorSpec == InitIndicator /\ [][NextIndicator]_vars

NextCount ==
    \/ \E p \in CountPeriods : Count_Init(p)
    \/ Timer_A1_Interrupt_Init
    \/ Timer_A1_Interrupt_Init_Return
    \/ TimerCount

CountSpec == InitCount /\ [][NextCount]_vars

(***************************************************************************)
(* Observations used by the properties below.                              *)
(***************************************************************************)
\* what the program shows to the outside: the globals, the UART, the
\* ports, the motor and servo channels and the timer driver's state
effects == <<collision_detected, bumper_sensor_value, uart, P8_OUT, LED2,
             motor, servo, timer, PRIMASK>>

\* a step of the bumper interrupt: only these move bpc
BumperStep == bpc' # bpc

\* a step of the timer interrupt: only these move tpc
TimerStep == tpc' # tpc

\* a step of the main context: only these move pc or ip
MainContextStep == pc' # pc \/ ip' # ip

\* main() is in its while(1) loop, lines 213-238
InMainLoop ==
    pc \in {"L218", "L219", "L220", "L221", "L224", "L225", "L226", "L227"}

\* TA1_0_IRQHandler has called the task and has not returned
InTask == tpc \in {"L70", "L72", "L73", "L77", "L78", "L65"}

\* Timer_A1_Interrupt_Init has stored its task and has not returned
InInit == pc \in {"T21", "T26", "T30", "T34", "T37", "T40", "T43", "T46", "T47"}

\* the events of a sequence: command i, then delay i
Interleave(cmds, delays) ==
    [i \in 1..(2 * Len(cmds)) |->
        IF i % 2 = 1 THEN cmds[(i + 1) \div 2]
        ELSE <<"Clock_Delay1ms", delays[i \div 2]>>]

C5_Min(a, b) == IF a < b THEN a ELSE b

(***************************************************************************)
(* C1  First-edge-wins latch.  From a clear latch the handler leaves       *)
(* collision_detected = 1; a step of the handler taken while the latch is  *)
(* set leaves it 1 and changes nothing else of the program; a set latch    *)
(* falls only in Handle_Collision run by the main context.                 *)
(***************************************************************************)
C1_FirstEdgeWins ==
    /\ [][bpc' = "L56" => collision_detected' = 1]_vars
    /\ [][BumperStep /\ collision_detected = 1 => UNCHANGED effects]_vars
    /\ [][collision_detected = 1 /\ collision_detected' = 0
            => Running = "main" /\ pc = "Handle_Collision"]_vars

\* a second edge was handled while the latch of the first stood: one line
C1_Witness ==
    /\ nEdges = 2 /\ bpc = "L56"
    /\ nSets = 1 /\ Len(uart) = 1
    /\ collision_detected = 1

(***************************************************************************)
(* C2  Recovery always returns to Normal.  A latch set while main() is in  *)
(* its loop leads to a state where the loop has run Handle_Collision and   *)
(* the latch is clear again.                                               *)
(***************************************************************************)
C2_LatchLeadsToRecovery ==
    (collision_detected = 1 /\ InMainLoop) ~> (collision_detected = 0)

(***************************************************************************)
(* C3  The motors are stopped in response to a collision.  A latch set     *)
(* while main() is in its loop leads to a Motor_Stop, both duties zero,    *)
(* and that Motor_Stop is the first motor command since the latch was set. *)
(***************************************************************************)
C3_StopFollowsLatch ==
    /\ [](first_cmd \in {"none", "Motor_Stop"})
    /\ (collision_detected = 1 /\ InMainLoop)
          ~> (first_cmd = "Motor_Stop" /\ motor.left = 0 /\ motor.right = 0)

(***************************************************************************)
(* C4  Who may change the latch.  collision_detected rises only in the     *)
(* store of Bumper_Sensors_Handler (line 54) and falls only in the last    *)
(* statement of Handle_Collision (line 172) run by the main context; the   *)
(* timer interrupt (handler and tick callback) and every other step of     *)
(* the main context leave it as it is.                                     *)
(***************************************************************************)
C4_WhoChangesLatch ==
    /\ [][collision_detected = 0 /\ collision_detected' = 1
            => Running = "BUMP" /\ bpc = "L54" /\ BumperStep]_vars
    /\ [][collision_detected = 1 /\ collision_detected' = 0
            => /\ Running = "main" /\ pc = "Handle_Collision"
               /\ ip = 11 /\ ip' = 12]_vars
    /\ [][TimerStep => collision_detected' = collision_detected]_vars
    /\ [][MainContextStep /\ ~(pc = "Handle_Collision" /\ ip = 11)
            => collision_detected' = collision_detected]_vars

\* a second episode: the latch was set, cleared by the recovery, set again
C4_Witness ==
    /\ nSets = 2 /\ collision_detected = 1
    /\ PRIMASK = 0

C5_Commands ==
    << <<"Motor_Stop">>, <<"Motor_Backward", 4500, 4500>>, <<"Motor_Stop">>,
       <<"Motor_Right", 1500, 1500>>, <<"Motor_Stop">> >>

C5_Delays == <<2000, 3000, 1000, 5000, 2000>>

(***************************************************************************)
(* C5  Handle_Collision issues Stop, Backward(4500,4500), Stop,            *)
(* Right(1500,1500), Stop, each followed by a delay of 2000, 3000, 1000,   *)
(* 5000, 2000 ms, and the latch, if set on entry, stays set until the      *)
(* fifth delay has elapsed.                                                *)
(***************************************************************************)
C5_RecoverySequence ==
    pc = "Handle_Collision" =>
        /\ mlog = SubSeq(Interleave(C5_Commands, C5_Delays), 1,
                         C5_Min(ip - 1, 10))
        /\ ip <= 12
        /\ (h_entry = 1 /\ ip <= 11 => collision_detected = 1)
        /\ (h_entry = 1 /\ collision_detected = 0 =>
                mlog = Interleave(C5_Commands, C5_Delays))

\* a recovery entered with the latch set has run to its end
C5_Witness ==
    /\ pc = "Handle_Collision" /\ ip = 12
    /\ h_entry = 1 /\ collision_detected = 0
    /\ Len(mlog) = 10 /\ mlog[7] = <<"Motor_Right", 1500, 1500>>
    /\ motor = [cmd |-> "Motor_Stop", left |-> 0, right |-> 0]

C6_Commands ==
    << <<"Motor_Forward", 7500, 7500>>, <<"Motor_Stop">>,
       <<"Motor_Left", 4500, 4500>>, <<"Motor_Stop">>,
       <<"Motor_Right", 4500, 4500>>, <<"Motor_Stop">>,
       <<"Motor_Backward", 4500, 4500>>, <<"Motor_Stop">> >>

C6_Delays == <<2000, 2000, 2000, 2000, 2000, 2000, 2000, 2000>>

(***************************************************************************)
(* C6  Drive_Pattern_1 issues Forward(7500,7500), Stop, Left(4500,4500),   *)
(* Stop, Right(4500,4500), Stop, Backward(4500,4500), Stop, each followed  *)
(* by a 2000 ms delay, whatever the latch is, and no step of it writes the *)
(* latch.                                                                  *)
(***************************************************************************)
C6_DemoSequence ==
    /\ [](pc = "Drive_Pattern_1" =>
            /\ ip <= 17
            /\ mlog = SubSeq(Interleave(C6_Commands, C6_Delays), 1, ip - 1))
    /\ [][pc = "Drive_Pattern_1" /\ MainContextStep
            => collision_detected' = collision_detected]_vars

\* a demonstration pattern has run to its end through a collision
C6_Witness ==
    /\ pc = "Drive_Pattern_1" /\ ip = 17
    /\ h_entry = 0 /\ collision_detected = 1
    /\ Len(mlog) = 16 /\ mlog[13] = <<"Motor_Backward", 4500, 4500>>

\* bit i of P8->OUT after a tick, from its value before and the latch
C7_BitAfter(before, latch, i) ==
    IF i \in {0, 5} THEN (IF latch = 0 THEN 1 - Bit(before, i) ELSE 0)
    ELSE IF i \in {6, 7} THEN (IF latch = 0 THEN 0 ELSE 1 - Bit(before, i))
    ELSE Bit(before, i)

(***************************************************************************)
(* C7  Indicator update per tick.  When Timer_A1_10_Hz_Task has run with   *)
(* the latch read as clear, bits 0 and 5 of P8->OUT are inverted and bits  *)
(* 6 and 7 are zero; with the latch read as set, bits 6 and 7 are inverted *)
(* and bits 0 and 5 are zero; bits 1 to 4 are as before, for every 8-bit   *)
(* value P8->OUT had when the task started.                                *)
(***************************************************************************)
C7_IndicatorUpdate ==
    tpc = "L65" /\ invoked = "Timer_A1_10_Hz_Task" =>
        \A i \in 0..7 : Bit(P8_OUT, i) = C7_BitAfter(p8_entry, branch, i)

\* the task ran with the latch set from P8->OUT = 0xB5 and left 0x54
C7_Witness ==
    /\ tpc = "L65" /\ invoked = "Timer_A1_10_Hz_Task"
    /\ branch = 1 /\ p8_entry = 181 /\ P8_OUT = 84

\* the line for each bitmask of BumperStates, written out
C8_Line(b) ==
    IF b = 1
    THEN <<"Collision Detected! Bumper Sensor State: 0x", "0", "1", "\n">>
    ELSE IF b = 237
    THEN <<"Collision Detected! Bumper Sensor State: 0x", "E", "D", "\n">>
    ELSE <<>>

(***************************************************************************)
(* C8  One diagnostic line per collision episode.  The UART output grows   *)
(* only in a handler invocation that found the latch clear, by the line    *)
(* "Collision Detected! Bumper Sensor State: 0x" and the invocation's      *)
(* bitmask as two upper-case hexadecimal digits; an invocation with the    *)
(* latch set emits nothing; the number of lines is the number of 0 -> 1    *)
(* transitions of the latch.                                               *)
(***************************************************************************)
C8_OneLinePerEpisode ==
    /\ [](Len(uart) = nSets + (IF bpc = "L54" THEN 1 ELSE 0))
    /\ [][uart' # uart =>
            /\ Running = "BUMP" /\ collision_detected = 0
            /\ uart' = Append(uart, C8_Line(bumper_sensor_state))]_vars
    /\ [][BumperStep /\ collision_detected = 1 => uart' = uart]_vars
    /\ [][collision_detected = 0 /\ collision_detected' = 1 =>
            /\ Len(uart) = nSets + 1
            /\ uart[Len(uart)] = C8_Line(bumper_sensor_state)]_vars

\* two episodes, two lines, each with its own bitmask
C8_Witness ==
    /\ nSets = 2 /\ Len(uart) = 2
    /\ uart[1] = C8_Line(1) /\ uart[2] = C8_Line(237)

(***************************************************************************)
(* C9  Dispatch per interrupt.  A run of TA1_0_IRQHandler has cleared      *)
(* CCIFG (bit 0 of CCTL[0]) before it calls the task, the flag is clear    *)
(* while the task runs, and the run has called the task exactly once when  *)
(* it returns.                                                             *)
(***************************************************************************)
C9_DispatchOnce ==
    /\ (tpc = "L61" => task_calls = 0)
    /\ (tpc = "L64" => task_calls = 0 /\ Bit(TA1CCTL0, 0) = 0)
    /\ (InTask => task_calls = 1 /\ Bit(TA1CCTL0, 0) = 0)

\* the handler is about to return from the one call of a client's task
C9_Witness ==
    /\ tpc = "L65" /\ invoked = "Task_B"
    /\ task_calls = 1 /\ Bit(TA1CCTL0, 0) = 0

(***************************************************************************)
(* C10  Single registrant, replaced on re-init.  Once                      *)
(* Timer_A1_Interrupt_Init(t, p) has returned, a timer interrupt invokes   *)
(* t, whatever was registered before, until a later init stores its task   *)
(* (line 18), from when the interrupt invokes that one; one pointer holds  *)
(* the registered task.                                                    *)
(***************************************************************************)
C10_Replaced ==
    /\ Timer_A1_Task \in Tasks \cup {NULL}
    /\ (InTask /\ ~InInit => invoked = registered /\ registered \in Tasks)
    /\ (InTask /\ InInit => invoked = arg_task)
    /\ (pc \in {"client", "S52", "S55"} => Timer_A1_Task = registered)

\* Timer_A1_10_Hz_Task ran (it toggled P8->OUT), Task_B replaced it and runs
C10_Witness ==
    /\ P8_OUT = 33
    /\ registered = "Task_B" /\ pc = "client"
    /\ tpc = "L65" /\ invoked = "Task_B"

C12_LastBitmaskRecorded ==
    nEdges > 0 /\ bpc \in {"L56", "idle"} =>
        bumper_sensor_value = bumper_sensor_state

\* a statement that commands a motor or waits
C13_IsEvent(stmt) == stmt[1] # "collision_detected = 0"

\* what the sequence issues when nothing interrupts it
C13_Events(f) == SelectSeq(Body(f), C13_IsEvent)

(***************************************************************************)
(* C13  Sequences run to completion under preemption.  A step of either    *)
(* interrupt leaves the position of the running sequence, what it has      *)
(* issued and the motor command as they are; every step of Drive_Pattern_1 *)
(* and Handle_Collision runs the statement that follows the last one run   *)
(* (none skipped, repeated or reordered, and no return before the last),   *)
(* so what a sequence has issued is at every position the same commands    *)
(* and delays as without interrupts.                                       *)
(***************************************************************************)
C13_RunToCompletion ==
    /\ [][BumperStep \/ TimerStep => UNCHANGED <<pc, ip, mlog, motor>>]_vars
    /\ [][MainContextStep /\ pc \in {"Drive_Pattern_1", "Handle_Collision"} =>
            (IF ip <= Len(Body(pc))
             THEN (pc' = pc /\ ip' = ip + 1 /\
                   mlog' = (IF C13_IsEvent(Body(pc)[ip])
                            THEN Append(mlog, Body(pc)[ip]) ELSE mlog))
             ELSE pc' = ra)]_vars
    /\ [](pc \in {"Drive_Pattern_1", "Handle_Collision"} =>
            mlog = SubSeq(C13_Events(pc), 1,
                          C5_Min(ip - 1, Len(C13_Events(pc)))))

\* a pattern entered with the latch clear has issued all its commands while
\* a collision set the latch, and is preempted by both handlers, nested
C13_Witness ==
    /\ pc = "Drive_Pattern_1" /\ ip = 17 /\ mlog = C13_Events(pc)
    /\ h_entry = 0 /\ collision_detected = 1
    /\ nEdges = 2 /\ stack = <<"TA1", "BUMP">>

\* the clock-source and prescale fields of CTL: TASSEL (bits 9..8) and ID
\* (bits 7..6)
C14_ClockFields(ctl) == (ctl \div 64) % 16

\* the configuration the timer has
C14_Config ==
    [clock |-> C14_ClockFields(TA1CTL), divider |-> TA1EX0 % 8,
     ccie |-> CCIE, ccr0 |-> TA1CCR0]

\* the configuration the statements of the init produce from cleared
\* registers
C14_FromReset(period) ==
    [clock |-> C14_ClockFields(StartTimer(SelectClock(HaltTimer(0)))),
     divider |-> SetEX0(0) % 8,
     ccie |-> Bit(EnableCCIE(0), 4),
     ccr0 |-> PeriodToCCR0(period)]

(***************************************************************************)
(* C14  Re-initialization fully resets the timer configuration.  When      *)
(* Timer_A1_Interrupt_Init(task, period) has returned, the TASSEL and ID   *)
(* fields of CTL, the EX0 divider, the CCR0 interrupt enable and CCR[0]    *)
(* are what the init produces from cleared registers: they depend on the   *)
(* arguments only, whatever the registers held before.                     *)
(***************************************************************************)
C14_FullReset ==
    pc = "client" /\ phase \in {"running", "restarted"} =>
        C14_Config = C14_FromReset(arg_period)

C15_Duties == {0, 1700, 7000}

\* the round of the loop: both channels to 1700, red, delay, both channels
\* to 7000, blue, delay, and again
C15_Round ==
    {<<"L218", "L219">>, <<"L219", "L220">>, <<"L220", "L221">>,
     <<"L221", "L224">>, <<"L224", "L225">>, <<"L225", "L226">>,
     <<"L226", "L227">>, <<"L227", "L218">>}

(***************************************************************************)
(* C15  The shipped main loop keeps the servo duties within the period.    *)
(* Each servo duty is 0, 1700 or 7000 and not above the period, which is   *)
(* 60000 once Timer_A2_PWM_Init(60000, 0, 0) has run; at the delay of line *)
(* 221 both channels are 1700 and at the delay of line 227 both are 7000,  *)
(* each delay is Clock_Delay1ms(5000), and the loop is never left: every   *)
(* step of it is the next of its round, in which the one setting and its   *)
(* delay follow the other.                                                 *)
(***************************************************************************)
C15_ServoDuties ==
    /\ [](servo.d1 \in C15_Duties /\ servo.d2 \in C15_Duties)
    /\ [](servo.d1 <= servo.period /\ servo.d2 <= servo.period)
    /\ [](InMainLoop => servo.period = 60000)
    /\ [](pc = "L221" => servo.d1 = 1700 /\ servo.d2 = 1700)
    /\ [](pc = "L227" => servo.d1 = 7000 /\ servo.d2 = 7000)
    /\ [][pc' # pc /\ pc \in {"L221", "L227"} => delay_ms' = 5000]_vars
    /\ [][InMainLoop /\ servo' # servo =>
            pc \in {"L218", "L219", "L224", "L225"}]_vars
    /\ [][InMainLoop /\ pc' # pc => <<pc, pc'>> \in C15_Round]_vars

\* the loop is at the delay that holds 7000, after the delay that held
\* 1700, with the latch set by a collision
C15_Witness ==
    /\ pc = "L227" /\ delay_ms = 5000 /\ LED2 = "RGB_LED_BLUE"
    /\ servo = [period |-> 60000, d1 |-> 7000, d2 |-> 7000]
    /\ collision_detected = 1 /\ P8_OUT = 192

\* the counts from one interrupt to the next that the claim names
C16_Counts(period) == IF period = 0 THEN 65536 ELSE period

(***************************************************************************)
(* C16 as stated.  When Timer_A1_Interrupt_Init(task,                      *)
(* period) has returned, CCR[0] holds period - 1, and 65535 for period 0;  *)
(* the timer counts, and from one compare interrupt to the next it counts  *)
(* exactly period times for every period of 1..65535, and 65536 times for  *)
(* period 0.                                                               *)
(***************************************************************************)
C16_PeriodCounts ==
    pc = "client" /\ phase = "running" =>
        /\ TA1CCR0 = (IF arg_period = 0 THEN 65535 ELSE arg_period - 1)
        /\ TimerRuns
        /\ \A i \in 2..Len(gaps) : gaps[i] = C16_Counts(arg_period)

(***************************************************************************)
(* C16  Period register arithmetic, amended.  When                         *)
(* Timer_A1_Interrupt_Init(task, period) has returned, CCR[0] holds        *)
(* period - 1, and 65535 for period 0.  For every period of 2..65535 the   *)
(* timer counts, and counts exactly period times from one compare          *)
(* interrupt to the next; for period 0 it counts 65536 times; for period 1 *)
(* CCR[0] is 0, the up-mode timer does not count and no compare interrupt  *)
(* is raised.                                                              *)
(***************************************************************************)
C16_PeriodCountsFrom2 ==
    pc = "client" /\ phase = "running" =>
        /\ TA1CCR0 = (IF arg_period = 0 THEN 65535 ELSE arg_period - 1)
        /\ arg_period # 1 =>
              /\ TimerRuns
              /\ \A i \in 2..Len(gaps) : gaps[i] = C16_Counts(arg_period)
        /\ arg_period = 1 => ~TimerRuns /\ gaps = <<>> /\ CCIFG = 0

\* period 3: the first compare interrupt 2 counts after the start (the
\* counter starts at 0), the second 3 counts after the first
C16_Witness ==
    /\ pc = "client" /\ phase = "running" /\ arg_period = 3
    /\ TA1CCR0 = 2 /\ gaps = <<2, 3>> /\ CCIFG = 1

(***************************************************************************)
(* C17  No dispatch of an unregistered callback.  With the timer started   *)
(* only by Timer_A1_Interrupt_Init and every task argument non-null: the   *)
(* pointer holds a task whenever the CCR0 interrupt is enabled, NVIC       *)
(* interrupt 10 is enabled or the timer is started, because line 18 stores *)
(* it first; so the pointer holds a task when TA1_0_IRQHandler is about to *)
(* call through it, also in an interrupt taken inside a later init, and    *)
(* the call never faults.                                                  *)
(***************************************************************************)
C17_NoUnsetDispatch ==
    /\ tpc # "HardFault"
    /\ (tpc = "L64" => Timer_A1_Task \in Tasks)
    /\ (CCIE = 1 \/ NVIC_EN10 = 1 \/ MC(TA1CTL) # 0 => Timer_A1_Task \in Tasks)

\* an interrupt taken inside a second init, after its store: the handler
\* is about to call the new task, the first init's is replaced
C17_Witness ==
    /\ pc = "T26" /\ nCalls = 2 /\ phase = "running"
    /\ registered = "Timer_A1_10_Hz_Task" /\ arg_task = "Task_B"
    /\ Running = "TA1" /\ tpc = "L64" /\ Timer_A1_Task = "Task_B"

\* the body of Timer_A1_10_Hz_Task is running (lines 70-78)
C18_InBody == tpc \in {"L70", "L72", "L73", "L77", "L78"}

(***************************************************************************)
(* C18  The indicator groups are mutually exclusive at tick boundaries.    *)
(* Once Timer_A1_10_Hz_Task has run completely at least once, in every     *)
(* state outside its body bits 0x21 and bits 0xC0 of P8->OUT are not both  *)
(* non-zero, whatever P8->OUT was at the start and however latch sets and  *)
(* clears fall between the ticks: after a tick that found the latch set    *)
(* the 0x21 group is off, after one that found it clear the 0xC0 group is  *)
(* off, until the next tick.                                               *)
(***************************************************************************)
C18_GroupsExclusive ==
    branch # -1 /\ ~C18_InBody =>
        /\ BitAnd(P8_OUT, 33, 8) = 0 \/ BitAnd(P8_OUT, 192, 8) = 0
        /\ branch = 1 => BitAnd(P8_OUT, 33, 8) = 0
        /\ branch = 0 => BitAnd(P8_OUT, 192, 8) = 0

\* from P8->OUT = 0xFF: ticks with the latch clear left 0x3F, the latch was
\* set, cleared by a recovery and set again, and the tick that found it set
\* put the 0x21 group off and the 0xC0 group on
C18_Witness ==
    /\ tpc = "L65" /\ branch = 1 /\ nSets = 2 /\ collision_detected = 1
    /\ p8_entry = 63 /\ P8_OUT = 222

=============================================================================
